---- MODULE Spec2Model ----
(***************************************************************************)
(* Model of the meeting-room signalling relay: the WebSocket consumer      *)
(* (meetings/consumers.py), the JWT handshake (meetingapp/middleware.py),  *)
(* the channel layer it is configured with (meetingapp/settings*.py) and   *)
(* the REST views that change Meeting / Participant rows                   *)
(* (meetings/views.py, meetings/models.py).                                *)
(*                                                                         *)
(* One consumer instance handles one connection.  Its handlers (connect,   *)
(* receive, disconnect and the group message handlers) run one at a time   *)
(* for that connection; every `await` on the channel layer or the database *)
(* is a point where the handlers of other connections and the REST views   *)
(* interleave.  Steps that touch only the connection's own socket (accept, *)
(* send) are folded into the neighbouring step of the same handler.        *)
(***************************************************************************)
EXTENDS Integers, Sequences, FiniteSets, TLC

\* ------------------------------------------------------------------ bounds
\* inbound frames handled in one behaviour, over all connections
MaxFrames == 1
\* REST requests started in one behaviour
MaxRequests == 2
\* messages a channel holds before the layer skips it: the layer's
\* "capacity" (1500 in settings.py), scaled down so that a full channel occurs
Capacity == 2

\* ------------------------------------------------------- program constants
CloseUnauthenticated == 4001
CloseForbidden == 4003
MaxChatLen == 500
max_participants == 20

\* ------------------------------------------------------------- vocabulary
Null == "null"
Anonymous == 0
Conns == {1, 2, 3}
\* the connections opened where two are enough
TwoConns == {1, 2}
Users == {1, 2, 3}
Meetings == {"R1", "R2"}
Reqs == {1, 2}
\* the one view worker of a deployment that serves requests one at a time
OneWorker == {1}

\* host column of the Meeting rows present from the start
MeetingHost == [m \in Meetings |-> IF m = "R1" THEN 1 ELSE 2]

\* max_participants column of the Meeting rows: R1 has the default, R2 has
\* room for one
maxParticipants == [m \in Meetings |-> IF m = "R1" THEN max_participants ELSE 1]

\* a user id no User row has (a deleted account)
NoSuchUser == 4

\* credentials a browser can put in ?token=<jwt>: none; one that does not
\* verify (bad signature, expired) whatever user id it claims; one that
\* verifies, for an existing user or for a user id that has no row
Tokens == {[kind |-> "missing", uid |-> Anonymous], [kind |-> "invalid", uid |-> 1]}
          \cup {[kind |-> "valid", uid |-> u] : u \in Users \cup {NoSuchUser}}

UserNames == <<"alice", "bob", "carol", "dave", "erin">>
Username(u) == IF u \in 1..Len(UserNames) THEN UserNames[u] ELSE ""

VARIABLES
    meetingActive,  \* Meeting.is_active, per meeting row
    participant,    \* Participant row per (meeting, user): "none" | "active" | "left"
    req,            \* REST request in flight, per worker
    nreq,           \* REST requests started so far
    groups,         \* channel layer: group name -> set of channels
    inbox,          \* channel layer: messages queued on each connection's channel
    pc,             \* position of each connection's consumer
    cred,           \* what the connection's query string carried: "none" before the
                    \* handshake, else "missing" | "invalid" | "unknown_user" | "valid"
    user,           \* consumer.user (scope["user"]) per connection
    room,           \* consumer.meeting_id per connection
    hasUserGroup,   \* hasattr(consumer, "user_group")
    closeCode,      \* code the consumer closed the socket with, 0 if none
    out,            \* frames written to each connection's socket, in order
    nframes,        \* inbound frames handled per connection
    lefts,          \* participant.left broadcasts issued per connection
    log,            \* one record per inbound frame handled: what was sent, to whom
    lastOp          \* the latest registry call per (group, channel), for RegistrySpec

vars == <<meetingActive, participant, req, nreq, groups, inbox, pc, cred, user, room,
          hasUserGroup, closeCode, out, nframes, lefts, log, lastOp>>

dbVars == <<meetingActive, participant>>
restVars == <<req, nreq>>
layerVars == <<groups, inbox>>
connVars == <<pc, cred, user, room, hasUserGroup, closeCode, out, nframes, lefts>>
ghostVars == <<log, lastOp>>

\* ----------------------------------------------------------- channel layer
MeetingGroup(m) == <<"meeting", m>>
\* a personal group shared by all users
UserGroupShared(u) == <<"user", Anonymous>>
UserGroup(u) == <<"user", u>>
NoGroup == <<"none", 0>>

Members(g) == IF g \in DOMAIN groups THEN groups[g] ELSE {}

\* group_add: idempotent insert, creating the group entry on first use
group_add(g, c) ==
    IF g \in DOMAIN groups
    THEN [groups EXCEPT ![g] = @ \cup {c}]
    ELSE groups @@ (g :> {c})

\* a removal that keeps the entry of a group it has emptied
group_discard_member(g, c) ==
    IF g \in DOMAIN groups THEN [groups EXCEPT ![g] = @ \ {c}] ELSE groups

\* a removal that drops the whole group entry
group_discard_entry(g, c) ==
    [h \in (DOMAIN groups) \ {g} |-> groups[h]]

\* group_discard: idempotent removal; an emptied group entry is deleted
group_discard(g, c) ==
    IF g \notin DOMAIN groups THEN groups
    ELSE IF groups[g] \ {c} = {}
         THEN [h \in (DOMAIN groups) \ {g} |-> groups[h]]
         ELSE [groups EXCEPT ![g] = @ \ {c}]

\* channels of the group that still have room for one more message
Enqueued(g) == {c \in Members(g) : Len(inbox[c]) < Capacity}

\* a send that one full member channel holds up for all
group_send_all_or_none(g, msg) ==
    [c \in Conns |-> IF c \in Members(g) /\ Enqueued(g) = Members(g)
                     THEN Append(inbox[c], msg) ELSE inbox[c]]

\* group_send: one copy per member channel; a full channel is skipped
group_send(g, msg) ==
    [c \in Conns |-> IF c \in Enqueued(g) THEN Append(inbox[c], msg) ELSE inbox[c]]

\* ------------------------------------------------------------ identity
\* a middleware that reads the user id of a token without verifying it
GetUserUnverified(token) ==
    IF token.kind = "missing" THEN Anonymous
    ELSE IF token.uid \in Users THEN token.uid
    ELSE Anonymous

\* JWTAuthMiddleware._get_user: the user of a token that verifies, else AnonymousUser
GetUser(token) ==
    IF token.kind = "missing" THEN Anonymous
    ELSE IF token.kind = "valid" /\ token.uid \in Users THEN token.uid
    ELSE Anonymous

\* what the query string carried
Credential(token) ==
    IF token.kind = "valid" /\ token.uid \notin Users THEN "unknown_user" ELSE token.kind

\* ------------------------------------------------------ database reads
\* MeetingConsumer._check_access
CheckAccess(m, u) ==
    IF ~(m \in Meetings /\ meetingActive[m]) THEN FALSE
    ELSE IF MeetingHost[m] = u THEN TRUE
    ELSE participant[m][u] = "active"

\* MeetingConsumer._get_active_participants: the other active Participant rows
ActiveParticipants(m, u) ==
    IF m \in Meetings
    THEN {p \in Users : participant[m][p] = "active" /\ p # u}
    ELSE {}

\* ------------------------------------------------------------- messages
\* a channel-layer message or frame of connection c, whose user is u
MsgOf(type, u, c, k) ==
    [type |-> type, user_id |-> u, username |-> Username(u),
     message |-> <<>>, raised |-> FALSE, signal |-> Null, participants |-> {},
     id |-> <<c, k>>]

Msg(type, c, k) == MsgOf(type, user[c], c, k)

\* session states of the connection's transport
Accepted == {"snapshot", "bcast_join", "active"}


\* the wire name of each channel-layer message type
WireType(t) ==
    CASE t = "participant.joined" -> "participant_joined"
      [] t = "participant.left" -> "participant_left"
      [] t = "chat.message" -> "chat"
      [] t = "hand.raise" -> "hand_raise"
      [] t = "webrtc.relay" -> "webrtc_signal"
      [] t = "meeting.ended" -> "meeting_ended"
      [] OTHER -> t

\* the frame a group message handler writes to the socket
FrameOf(msg) == [msg EXCEPT !.type = WireType(msg.type)]

\* identities with an accepted, not yet closed connection to meeting m
LiveIdentities(m) == {user[c] : c \in {d \in Conns : pc[d] \in Accepted /\ room[d] = m}}

\* ----------------------------------------------------------------- Init
Idle == [pc |-> "idle", user |-> Anonymous, meeting |-> "R0"]

\* channels and groups the registry calls of RegistrySpec range over
RegGroups == {MeetingGroup("R1"), UserGroup(1), UserGroup(2)}

\* no connection yet, no request in flight, an empty channel layer
Fresh ==
    /\ req = [r \in Reqs |-> Idle]
    /\ groups = <<>>
    /\ inbox = [c \in Conns |-> <<>>]
    /\ pc = [c \in Conns |-> "init"]
    /\ cred = [c \in Conns |-> "none"]
    /\ user = [c \in Conns |-> Anonymous]
    /\ room = [c \in Conns |-> "R0"]
    /\ hasUserGroup = [c \in Conns |-> FALSE]
    /\ closeCode = [c \in Conns |-> 0]
    /\ out = [c \in Conns |-> <<>>]
    /\ nframes = [c \in Conns |-> 0]
    /\ lefts = [c \in Conns |-> 0]
    /\ log = {}
    /\ lastOp = [gc \in RegGroups \X TwoConns |-> "none"]

\* both meetings created by their hosts, nobody has joined
Init ==
    /\ meetingActive = [m \in Meetings |-> TRUE]
    /\ participant = [m \in Meetings |-> [u \in Users |-> "none"]]
    /\ nreq = 0
    /\ Fresh

\* ------------------------------------------------- connect (consumers.py)
\* the handshake: the middleware resolves the token, connect() reads the scope
\* and refuses an anonymous user (lines 44-50).  Connections are numbered in
\* the order they arrive.
Handshake(c, token, m) ==
    /\ pc[c] = "init"
    /\ \A d \in Conns : d < c => pc[d] # "init"
    /\ cred' = [cred EXCEPT ![c] = Credential(token)]
    /\ user' = [user EXCEPT ![c] = GetUser(token)]
    /\ room' = [room EXCEPT ![c] = m]
    /\ IF GetUser(token) = Anonymous
       THEN /\ closeCode' = [closeCode EXCEPT ![c] = CloseUnauthenticated]
            /\ pc' = [pc EXCEPT ![c] = "closing"]
       ELSE /\ closeCode' = closeCode
            /\ pc' = [pc EXCEPT ![c] = "check"]
    /\ UNCHANGED <<dbVars, restVars, layerVars, ghostVars, hasUserGroup, out, nframes, lefts>>

\* a connect that joins the room group before it knows the access check's
\* answer
ConnectCheckAccessRegistered(c) ==
    /\ pc[c] = "check"
    /\ groups' = group_add(MeetingGroup(room[c]), c)
    /\ IF CheckAccess(room[c], user[c])
       THEN /\ pc' = [pc EXCEPT ![c] = "add_room"]
            /\ closeCode' = closeCode
       ELSE /\ closeCode' = [closeCode EXCEPT ![c] = CloseForbidden]
            /\ pc' = [pc EXCEPT ![c] = "closing"]
    /\ UNCHANGED <<dbVars, restVars, inbox, ghostVars, cred, user, room, hasUserGroup, out,
                   nframes, lefts>>

\* lines 52-55
ConnectCheckAccess(c) ==
    /\ pc[c] = "check"
    /\ IF CheckAccess(room[c], user[c])
       THEN /\ pc' = [pc EXCEPT ![c] = "add_room"]
            /\ closeCode' = closeCode
       ELSE /\ closeCode' = [closeCode EXCEPT ![c] = CloseForbidden]
            /\ pc' = [pc EXCEPT ![c] = "closing"]
    /\ UNCHANGED <<dbVars, restVars, layerVars, ghostVars, cred, user, room, hasUserGroup, out,
                   nframes, lefts>>

\* line 58
ConnectAddRoom(c) ==
    /\ pc[c] = "add_room"
    /\ groups' = group_add(MeetingGroup(room[c]), c)
    /\ pc' = [pc EXCEPT ![c] = "add_user"]
    /\ UNCHANGED <<dbVars, restVars, inbox, ghostVars, cred, user, room, hasUserGroup, closeCode,
                   out, nframes, lefts>>

\* lines 61-64: the personal group, then accept()
ConnectAddUser(c) ==
    /\ pc[c] = "add_user"
    /\ groups' = group_add(UserGroup(user[c]), c)
    /\ hasUserGroup' = [hasUserGroup EXCEPT ![c] = TRUE]
    /\ pc' = [pc EXCEPT ![c] = "snapshot"]
    /\ UNCHANGED <<dbVars, restVars, inbox, ghostVars, cred, user, room, closeCode, out, nframes,
                   lefts>>

\* lines 67-71: the snapshot query and the room_state frame built from it
ConnectSnapshot(c) ==
    /\ pc[c] = "snapshot"
    /\ out' = [out EXCEPT ![c] = Append(@,
                 [Msg("room_state", c, 0) EXCEPT
                     !.participants = ActiveParticipants(room[c], user[c])])]
    /\ pc' = [pc EXCEPT ![c] = "bcast_join"]
    /\ UNCHANGED <<dbVars, restVars, layerVars, ghostVars, cred, user, room, hasUserGroup,
                   closeCode, nframes, lefts>>

\* a join broadcast that does not say who joined
ConnectBroadcastJoinUnnamed(c) ==
    /\ pc[c] = "bcast_join"
    /\ inbox' = group_send(MeetingGroup(room[c]), MsgOf("participant.joined", Anonymous, c, 0))
    /\ pc' = [pc EXCEPT ![c] = "active"]
    /\ UNCHANGED <<dbVars, restVars, groups, ghostVars, cred, user, room, hasUserGroup, closeCode,
                   out, nframes, lefts>>

\* lines 74-81
ConnectBroadcastJoin(c) ==
    /\ pc[c] = "bcast_join"
    /\ inbox' = group_send(MeetingGroup(room[c]), Msg("participant.joined", c, 0))
    /\ pc' = [pc EXCEPT ![c] = "active"]
    /\ UNCHANGED <<dbVars, restVars, groups, ghostVars, cred, user, room, hasUserGroup, closeCode,
                   out, nframes, lefts>>

\* -------------------------------------------- group message handlers
\* a consumer that takes queued group messages in the middle of connect()
CanDispatchEarly(c) == pc[c] \in {"snapshot", "bcast_join", "active", "closing"}

\* the consumer takes the next event only between handlers: while connect()
\* or disconnect() is running, queued group messages wait
CanDispatch(c) == pc[c] \in {"active", "closing"}

\* a socket that still carries frames after close()
SocketOpenAfterClose(c) == pc[c] \in Accepted \cup {"closing"}

\* the socket carries frames from accept() until it is closed
SocketOpen(c) == pc[c] \in Accepted

\* a consumer that takes the newest queued group message first
DeliverNewest(c) ==
    /\ CanDispatch(c)
    /\ inbox[c] # <<>>
    /\ LET msg == inbox[c][Len(inbox[c])]
       IN /\ inbox' = [inbox EXCEPT ![c] = SubSeq(@, 1, Len(@) - 1)]
          /\ out' = IF SocketOpen(c)
                    THEN [out EXCEPT ![c] = Append(@, FrameOf(msg))]
                    ELSE out
          /\ pc' = IF msg.type = "meeting.ended" /\ pc[c] = "active"
                   THEN [pc EXCEPT ![c] = "closing"]
                   ELSE pc
    /\ UNCHANGED <<dbVars, restVars, groups, ghostVars, cred, user, room, hasUserGroup, closeCode,
                   nframes, lefts>>

\* lines 151-192: the handler of the oldest queued group message.  After
\* close() the socket is shut: what a handler sends then is not transmitted.
Deliver(c) ==
    /\ CanDispatch(c)
    /\ inbox[c] # <<>>
    /\ LET msg == Head(inbox[c])
       IN /\ inbox' = [inbox EXCEPT ![c] = Tail(@)]
          /\ out' = IF SocketOpen(c)
                    THEN [out EXCEPT ![c] = Append(@, FrameOf(msg))]
                    ELSE out
          /\ pc' = IF msg.type = "meeting.ended" /\ pc[c] = "active"
                   THEN [pc EXCEPT ![c] = "closing"]
                   ELSE pc
    /\ UNCHANGED <<dbVars, restVars, groups, ghostVars, cred, user, room, hasUserGroup, closeCode,
                   nframes, lefts>>

\* ---------------------------------------------- disconnect (lines 83-98)
\* a disconnect that also marks the user's Participant row as left
DisconnectMarkingLeft(c) ==
    /\ pc[c] \in {"active", "closing"}
    /\ inbox' = group_send(MeetingGroup(room[c]), Msg("participant.left", c, 0 - 1))
    /\ lefts' = [lefts EXCEPT ![c] = @ + 1]
    /\ pc' = [pc EXCEPT ![c] = "discard_room"]
    /\ participant' = IF room[c] \in Meetings /\ user[c] \in Users
                      THEN [participant EXCEPT ![room[c]][user[c]] =
                              IF @ = "active" THEN "left" ELSE @]
                      ELSE participant
    /\ UNCHANGED <<meetingActive, restVars, groups, ghostVars, cred, user, room, hasUserGroup,
                   closeCode, out, nframes>>

\* websocket.disconnect arrives when the browser goes away (an accepted,
\* idle connection) or after the consumer's own close(); lines 84-94
DisconnectBroadcast(c) ==
    /\ pc[c] \in {"active", "closing"}
    /\ inbox' = group_send(MeetingGroup(room[c]), Msg("participant.left", c, 0 - 1))
    /\ lefts' = [lefts EXCEPT ![c] = @ + 1]
    /\ pc' = [pc EXCEPT ![c] = "discard_room"]
    /\ UNCHANGED <<dbVars, restVars, groups, ghostVars, cred, user, room, hasUserGroup, closeCode,
                   out, nframes>>

\* a teardown that leaves the personal group first
DisconnectDiscardUserFirst(c) ==
    /\ pc[c] = "discard_room"
    /\ groups' = group_discard(UserGroup(user[c]), c)
    /\ pc' = [pc EXCEPT ![c] = IF hasUserGroup[c] THEN "discard_user" ELSE "closed"]
    /\ inbox' = IF hasUserGroup[c] THEN inbox ELSE [inbox EXCEPT ![c] = <<>>]
    /\ UNCHANGED <<dbVars, restVars, ghostVars, cred, user, room, hasUserGroup, closeCode, out,
                   nframes, lefts>>

\* line 95
DisconnectDiscardRoom(c) ==
    /\ pc[c] = "discard_room"
    /\ groups' = group_discard(MeetingGroup(room[c]), c)
    /\ pc' = [pc EXCEPT ![c] = IF hasUserGroup[c] THEN "discard_user" ELSE "closed"]
    /\ inbox' = IF hasUserGroup[c] THEN inbox ELSE [inbox EXCEPT ![c] = <<>>]
    /\ UNCHANGED <<dbVars, restVars, ghostVars, cred, user, room, hasUserGroup, closeCode, out,
                   nframes, lefts>>

\* a teardown that forgets the personal group
DisconnectKeepUserGroup(c) ==
    /\ pc[c] = "discard_user"
    /\ pc' = [pc EXCEPT ![c] = "closed"]
    /\ inbox' = [inbox EXCEPT ![c] = <<>>]
    /\ UNCHANGED <<dbVars, restVars, groups, ghostVars, cred, user, room, hasUserGroup, closeCode,
                   out, nframes, lefts>>

\* lines 97-98; then the consumer stops and its channel is abandoned
DisconnectDiscardUser(c) ==
    /\ pc[c] = "discard_user"
    /\ groups' = group_discard(UserGroup(user[c]), c)
    /\ pc' = [pc EXCEPT ![c] = "closed"]
    /\ inbox' = [inbox EXCEPT ![c] = <<>>]
    /\ UNCHANGED <<dbVars, restVars, ghostVars, cred, user, room, hasUserGroup, closeCode, out,
                   nframes, lefts>>

\* A channel-layer call is a network call to the layer's store and can raise.
\* disconnect() has no try/finally: an exception leaves it at once, the
\* consumer stops, and the statements that follow never run.
\* lines 87-94 raising
DisconnectBroadcastFails(c) ==
    /\ pc[c] \in {"active", "closing"}
    /\ pc' = [pc EXCEPT ![c] = "closed"]
    /\ inbox' = [inbox EXCEPT ![c] = <<>>]
    /\ UNCHANGED <<dbVars, restVars, groups, ghostVars, cred, user, room, hasUserGroup, closeCode,
                   out, nframes, lefts>>

\* line 95 raising
DisconnectDiscardRoomFails(c) ==
    /\ pc[c] = "discard_room"
    /\ pc' = [pc EXCEPT ![c] = "closed"]
    /\ inbox' = [inbox EXCEPT ![c] = <<>>]
    /\ UNCHANGED <<dbVars, restVars, groups, ghostVars, cred, user, room, hasUserGroup, closeCode,
                   out, nframes, lefts>>

\* line 98 raising
DisconnectDiscardUserFails(c) ==
    /\ pc[c] = "discard_user"
    /\ pc' = [pc EXCEPT ![c] = "closed"]
    /\ inbox' = [inbox EXCEPT ![c] = <<>>]
    /\ UNCHANGED <<dbVars, restVars, groups, ghostVars, cred, user, room, hasUserGroup, closeCode,
                   out, nframes, lefts>>

\* ------------------------------------------------ receive (lines 100-147)
RECURSIVE SumFrames(_)
SumFrames(S) ==
    IF S = {} THEN 0
    ELSE LET c == CHOOSE x \in S : TRUE IN nframes[c] + SumFrames(S \ {c})

\* an inbound frame is handled by an accepted connection between handlers
CanReceive(c) == pc[c] = "active" /\ SumFrames(Conns) < MaxFrames

RECURSIVE LStrip(_)
LStrip(s) == IF s # <<>> /\ Head(s) = " " THEN LStrip(Tail(s)) ELSE s

RECURSIVE RStrip(_)
RStrip(s) == IF s # <<>> /\ s[Len(s)] = " " THEN RStrip(SubSeq(s, 1, Len(s) - 1)) ELSE s

\* str.strip()
Strip(s) == RStrip(LStrip(s))

\* s[:n]
Prefix(s, n) == SubSeq(s, 1, IF Len(s) < n THEN Len(s) ELSE n)

\* a chat text that is cut before it is stripped
ChatTextCutFirst(raw) == Strip(Prefix(raw, MaxChatLen))

\* a chat text that is cut but not stripped
ChatTextUnstripped(raw) == Prefix(raw, MaxChatLen)

\* line 110
ChatText(raw) == Prefix(Strip(raw), MaxChatLen)

\* what a browser may put in "message"
ChatInputs == {<<" ">>, <<" ", "a", " ">>}

\* "message" missing (the default "" of line 110), empty, or all whitespace
BlankChats == {<<>>, <<" ">>, <<" ", " ">>}

\* sessions of identity u that are accepted and not yet closing
LiveSessions(u) == {c \in Conns : pc[c] \in Accepted /\ user[c] = u}

\* the record of one handled inbound frame: its kind, the group its message
\* went to (NoGroup if nothing was sent), and that group's members, the
\* members whose channel took the message, and the target's live sessions
LogRecord(c, kind, g, to) ==
    [id |-> <<c, nframes[c] + 1>>, kind |-> kind, target |-> to, group |-> g,
     members |-> Members(g), enqueued |-> Enqueued(g), live |-> LiveSessions(to)]

Handled(c, kind, g, to) ==
    /\ nframes' = [nframes EXCEPT ![c] = @ + 1]
    /\ log' = log \cup {LogRecord(c, kind, g, to)}
    /\ UNCHANGED <<dbVars, restVars, groups, lastOp, pc, cred, user, room, hasUserGroup,
                   closeCode, lefts>>

\* lines 196-197
ErrorFrame(c, text) ==
    [Msg("error", c, nframes[c] + 1) EXCEPT
        !.user_id = Anonymous, !.username = "", !.signal = text]

\* lines 101-105: text that is not JSON
ReceiveInvalidJSON(c) ==
    /\ CanReceive(c)
    /\ out' = [out EXCEPT ![c] = Append(@, ErrorFrame(c, "invalid JSON"))]
    /\ inbox' = inbox
    /\ Handled(c, "invalid_json", NoGroup, Anonymous)

\* a chat relay that writes to every channel, whatever its room
ReceiveChatEverywhere(c, raw) ==
    /\ CanReceive(c)
    /\ IF ChatText(raw) = <<>>
       THEN /\ inbox' = inbox
            /\ Handled(c, "chat", NoGroup, Anonymous)
       ELSE /\ inbox' = [d \in Conns |->
                           IF pc[d] \in Accepted /\ Len(inbox[d]) < Capacity
                           THEN Append(inbox[d],
                                  [Msg("chat.message", c, nframes[c] + 1) EXCEPT
                                      !.message = ChatText(raw)])
                           ELSE inbox[d]]
            /\ Handled(c, "chat", MeetingGroup(room[c]), Anonymous)
    /\ out' = out

\* a chat relay that leaves the sender's own channel out
ReceiveChatToOthers(c, raw) ==
    /\ CanReceive(c)
    /\ IF ChatText(raw) = <<>>
       THEN /\ inbox' = inbox
            /\ Handled(c, "chat", NoGroup, Anonymous)
       ELSE /\ inbox' = [group_send(MeetingGroup(room[c]),
                           [Msg("chat.message", c, nframes[c] + 1) EXCEPT
                               !.message = ChatText(raw)]) EXCEPT ![c] = inbox[c]]
            /\ Handled(c, "chat", MeetingGroup(room[c]), Anonymous)
    /\ out' = out

\* lines 109-121
ReceiveChat(c, raw) ==
    /\ CanReceive(c)
    /\ IF ChatText(raw) = <<>>
       THEN /\ inbox' = inbox
            /\ Handled(c, "chat", NoGroup, Anonymous)
       ELSE /\ inbox' = group_send(MeetingGroup(room[c]),
                           [Msg("chat.message", c, nframes[c] + 1) EXCEPT
                               !.message = ChatText(raw)])
            /\ Handled(c, "chat", MeetingGroup(room[c]), Anonymous)
    /\ out' = out

\* lines 123-132
ReceiveHandRaise(c, raised) ==
    /\ CanReceive(c)
    /\ inbox' = group_send(MeetingGroup(room[c]),
                   [Msg("hand.raise", c, nframes[c] + 1) EXCEPT !.raised = raised])
    /\ Handled(c, "hand_raise", MeetingGroup(room[c]), Anonymous)
    /\ out' = out

\* a relay that sends the signal to the whole room
ReceiveSignalToRoom(c, to, signal) ==
    /\ CanReceive(c)
    /\ inbox' = group_send(MeetingGroup(room[c]),
                   [Msg("webrtc.relay", c, nframes[c] + 1) EXCEPT !.signal = signal])
    /\ Handled(c, "webrtc_signal", MeetingGroup(room[c]), to)
    /\ out' = out

\* a relay that sends the signal to one channel of the target only
ReceiveSignalOneChannel(c, to, signal) ==
    /\ CanReceive(c)
    /\ LET one == IF Members(UserGroup(to)) = {} THEN {}
                  ELSE {CHOOSE d \in Members(UserGroup(to)) : TRUE}
       IN inbox' = [d \in Conns |->
                      IF d \in one /\ Len(inbox[d]) < Capacity
                      THEN Append(inbox[d],
                             [Msg("webrtc.relay", c, nframes[c] + 1) EXCEPT !.signal = signal])
                      ELSE inbox[d]]
    /\ Handled(c, "webrtc_signal", UserGroup(to), to)
    /\ out' = out

\* a relay that answers a signal it cannot route with an error frame
ReceiveSignalReportingMiss(c, to, signal) ==
    /\ CanReceive(c)
    /\ IF to = 0 \/ LiveSessions(to) = {}
       THEN /\ inbox' = inbox
            /\ out' = [out EXCEPT ![c] = Append(@, ErrorFrame(c, "no such target"))]
            /\ Handled(c, "webrtc_signal", NoGroup, to)
       ELSE /\ inbox' = group_send(UserGroup(to),
                           [Msg("webrtc.relay", c, nframes[c] + 1) EXCEPT !.signal = signal])
            /\ out' = out
            /\ Handled(c, "webrtc_signal", UserGroup(to), to)

\* a relay that looks into the payload and passes on offers only
ReceiveSignalOffersOnly(c, to, signal) ==
    /\ CanReceive(c)
    /\ IF to = 0
       THEN /\ inbox' = inbox
            /\ Handled(c, "webrtc_signal", NoGroup, to)
       ELSE /\ inbox' = group_send(UserGroup(to),
                           [Msg("webrtc.relay", c, nframes[c] + 1) EXCEPT
                               !.signal = IF signal = "offer" THEN signal ELSE Null])
            /\ Handled(c, "webrtc_signal", UserGroup(to), to)
    /\ out' = out

\* lines 134-147; a missing or falsy "to" is 0 here
ReceiveSignal(c, to, signal) ==
    /\ CanReceive(c)
    /\ IF to = 0
       THEN /\ inbox' = inbox
            /\ Handled(c, "webrtc_signal", NoGroup, to)
       ELSE /\ inbox' = group_send(UserGroup(to),
                           [Msg("webrtc.relay", c, nframes[c] + 1) EXCEPT !.signal = signal])
            /\ Handled(c, "webrtc_signal", UserGroup(to), to)
    /\ out' = out

\* what the "signal" field of a webrtc_signal frame may hold: JSON null, an
\* offer, an answer, an ICE candidate, something that is none of these; or
\* the frame has no such field
NoField == "<absent>"
Payloads == {Null, "offer", "answer", "ice", "junk"}
SignalFrames == [to : {0, 1, 2}, signal : Payloads \cup {NoField}]

\* data.get("signal"), line 145
GetSignal(data) == IF data.signal = NoField THEN Null ELSE data.signal

\* lines 134-147 on the parsed frame
ReceiveSignalFrame(c, data) == ReceiveSignal(c, data.to, GetSignal(data))

\* a relay that puts the sender of an unknown frame out of the room group
ReceiveOtherLeaving(c) ==
    /\ CanReceive(c)
    /\ groups' = group_discard(MeetingGroup(room[c]), c)
    /\ nframes' = [nframes EXCEPT ![c] = @ + 1]
    /\ log' = log \cup {LogRecord(c, "other", NoGroup, Anonymous)}
    /\ UNCHANGED <<dbVars, restVars, inbox, out, lastOp, pc, cred, user, room, hasUserGroup,
                   closeCode, lefts>>

\* lines 107-134: a JSON object whose "type" is none of the three (or absent)
\* matches no branch
ReceiveOther(c) ==
    /\ CanReceive(c)
    /\ UNCHANGED <<inbox, out>>
    /\ Handled(c, "other", NoGroup, Anonymous)

\* the JSON objects a browser may send: the fields receive() reads, and the
\* sender fields a client may add to them (0: the field is absent)
InboundFrames ==
    LET Frame(t, m, r, to) ==
            {[type |-> t, message |-> m, raised |-> r, to |-> to, signal |-> "offer",
              user_id |-> u, from |-> f] : u \in {0, 2}, f \in {0, 2}}
    IN UNION ({Frame("chat", m, FALSE, 0) : m \in ChatInputs}
              \cup {Frame("hand_raise", <<>>, r, 0) : r \in BOOLEAN}
              \cup {Frame("webrtc_signal", <<>>, FALSE, to) : to \in {0, 2}}
              \cup {Frame("ping", <<>>, FALSE, 0)})

\* a relay that takes the sender of a chat from the frame when it names one
ReceiveTrustingSender(c, data) ==
    IF data.type = "chat" /\ data.user_id # 0 /\ ChatText(data.message) # <<>>
    THEN /\ CanReceive(c)
         /\ inbox' = group_send(MeetingGroup(room[c]),
                        [Msg("chat.message", c, nframes[c] + 1) EXCEPT
                            !.message = ChatText(data.message),
                            !.user_id = data.user_id,
                            !.username = Username(data.user_id)])
         /\ Handled(c, "chat", MeetingGroup(room[c]), Anonymous)
         /\ out' = out
    ELSE CASE data.type = "chat" -> ReceiveChat(c, data.message)
           [] data.type = "hand_raise" -> ReceiveHandRaise(c, data.raised)
           [] data.type = "webrtc_signal" -> ReceiveSignal(c, data.to, data.signal)
           [] OTHER -> ReceiveOther(c)

\* lines 107-147: receive() of a JSON object, by its "type"; of the object
\* it reads "message", "raised", "to" and "signal" and nothing else
Receive(c, data) ==
    CASE data.type = "chat" -> ReceiveChat(c, data.message)
      [] data.type = "hand_raise" -> ReceiveHandRaise(c, data.raised)
      [] data.type = "webrtc_signal" -> ReceiveSignal(c, data.to, data.signal)
      [] OTHER -> ReceiveOther(c)

\* a handler that raises ends the consumer: the server closes the socket,
\* disconnect() is not run and the channel stays in its groups
Crash(c, kind) ==
    /\ CanReceive(c)
    /\ pc' = [pc EXCEPT ![c] = "crashed"]
    /\ nframes' = [nframes EXCEPT ![c] = @ + 1]
    /\ log' = log \cup {LogRecord(c, kind, NoGroup, Anonymous)}
    /\ inbox' = [inbox EXCEPT ![c] = <<>>]
    /\ UNCHANGED <<dbVars, restVars, groups, lastOp, cred, user, room, hasUserGroup,
                   closeCode, out, lefts>>

\* line 100: a binary frame arrives as receive(bytes_data=...), an argument
\* receive(self, text_data) does not take
ReceiveBinary(c) == Crash(c, "binary")

\* line 107: JSON that is not an object (an array, a number, a string, null)
\* has no .get
ReceiveNonObject(c) == Crash(c, "non_object")

\* lines 139-140: a truthy "to" that gives no valid group name (a string
\* with a space, an object, a list) makes group_send raise
ReceiveSignalBadTarget(c) == Crash(c, "bad_target")

\* lines 101-103: text that opens more arrays or objects than the
\* interpreter's recursion limit (a few thousand "[") is not JSON, but
\* json.loads gives up on it with RecursionError, which is not a
\* JSONDecodeError and passes the except clause
ReceiveTooDeep(c) == Crash(c, "too_deep")

\* ------------------------------------------------- REST views (views.py)
\* Each view runs in its own worker; every ORM query is one step.

ReqStep(r, next) ==
    req' = [req EXCEPT ![r] = IF next = "idle" THEN Idle ELSE [@ EXCEPT !.pc = next]]

ActiveCount(m) == Cardinality({u \in Users : participant[m][u] = "active"})

\* MeetingJoinView.post, lines 110-113
JoinStart(r, u, m) ==
    /\ req[r].pc = "idle"
    /\ nreq < MaxRequests
    /\ nreq' = nreq + 1
    /\ req' = [req EXCEPT ![r] =
                 IF m \in Meetings /\ meetingActive[m]
                 THEN [pc |-> "join_count", user |-> u, meeting |-> m]
                 ELSE Idle]
    /\ UNCHANGED <<dbVars, layerVars, connVars, ghostVars>>

\* lines 116-119
JoinCount(r) ==
    /\ req[r].pc = "join_count"
    /\ ReqStep(r, IF MeetingHost[req[r].meeting] # req[r].user
                     /\ ActiveCount(req[r].meeting) >= maxParticipants[req[r].meeting]
                  THEN "idle" ELSE "join_upsert")
    /\ UNCHANGED <<dbVars, layerVars, connVars, ghostVars, nreq>>

\* lines 123-127: get_or_create
JoinUpsert(r) ==
    /\ req[r].pc = "join_upsert"
    /\ LET m == req[r].meeting
           u == req[r].user
       IN IF participant[m][u] = "none"
          THEN /\ participant' = [participant EXCEPT ![m][u] = "active"]
               /\ ReqStep(r, "idle")
          ELSE /\ participant' = participant
               /\ ReqStep(r, "join_save")
    /\ UNCHANGED <<meetingActive, layerVars, connVars, ghostVars, nreq>>

\* lines 128-133: the rejoin
JoinSave(r) ==
    /\ req[r].pc = "join_save"
    /\ participant' = [participant EXCEPT ![req[r].meeting][req[r].user] = "active"]
    /\ ReqStep(r, "idle")
    /\ UNCHANGED <<meetingActive, layerVars, connVars, ghostVars, nreq>>

\* MeetingLeaveView.post, lines 164-167
LeaveStart(r, u, m) ==
    /\ req[r].pc = "idle"
    /\ nreq < MaxRequests
    /\ nreq' = nreq + 1
    /\ req' = [req EXCEPT ![r] =
                 IF m \in Meetings
                 THEN [pc |-> "leave_update", user |-> u, meeting |-> m]
                 ELSE Idle]
    /\ UNCHANGED <<dbVars, layerVars, connVars, ghostVars>>

\* lines 170-175
LeaveUpdate(r) ==
    /\ req[r].pc = "leave_update"
    /\ LET m == req[r].meeting
           u == req[r].user
       IN /\ participant' = [participant EXCEPT ![m][u] =
                               IF @ = "active" THEN "left" ELSE @]
          /\ ReqStep(r, IF MeetingHost[m] = u THEN "leave_save" ELSE "idle")
    /\ UNCHANGED <<meetingActive, layerVars, connVars, ghostVars, nreq>>

\* Participant.objects.filter(meeting=m, is_active=True).update(is_active=False)
DeactivateAll(m) ==
    [participant EXCEPT ![m] = [u \in Users |-> IF @[u] = "active" THEN "left" ELSE @[u]]]

\* lines 176-178
LeaveSave(r) ==
    /\ req[r].pc = "leave_save"
    /\ meetingActive' = [meetingActive EXCEPT ![req[r].meeting] = FALSE]
    /\ ReqStep(r, "leave_update_all")
    /\ UNCHANGED <<participant, layerVars, connVars, ghostVars, nreq>>

\* lines 179-182
LeaveUpdateAll(r) ==
    /\ req[r].pc = "leave_update_all"
    /\ participant' = DeactivateAll(req[r].meeting)
    /\ ReqStep(r, "idle")
    /\ UNCHANGED <<meetingActive, layerVars, connVars, ghostVars, nreq>>

\* an end view that takes the request of any user
EndStartAnyUser(r, u, m) ==
    /\ req[r].pc = "idle"
    /\ nreq < MaxRequests
    /\ nreq' = nreq + 1
    /\ req' = [req EXCEPT ![r] =
                 IF m \in Meetings /\ meetingActive[m]
                 THEN [pc |-> "end_save", user |-> u, meeting |-> m]
                 ELSE Idle]
    /\ UNCHANGED <<dbVars, layerVars, connVars, ghostVars>>

\* MeetingEndView.post, lines 231-237
EndStart(r, u, m) ==
    /\ req[r].pc = "idle"
    /\ nreq < MaxRequests
    /\ nreq' = nreq + 1
    /\ req' = [req EXCEPT ![r] =
                 IF m \in Meetings /\ MeetingHost[m] = u /\ meetingActive[m]
                 THEN [pc |-> "end_save", user |-> u, meeting |-> m]
                 ELSE Idle]
    /\ UNCHANGED <<dbVars, layerVars, connVars, ghostVars>>

\* lines 239-241
EndSave(r) ==
    /\ req[r].pc = "end_save"
    /\ meetingActive' = [meetingActive EXCEPT ![req[r].meeting] = FALSE]
    /\ ReqStep(r, "end_update_all")
    /\ UNCHANGED <<participant, layerVars, connVars, ghostVars, nreq>>

\* lines 243-246
EndUpdateAll(r) ==
    /\ req[r].pc = "end_update_all"
    /\ participant' = DeactivateAll(req[r].meeting)
    /\ ReqStep(r, "idle")
    /\ UNCHANGED <<meetingActive, layerVars, connVars, ghostVars, nreq>>

\* ------------------------------------------------------- specification
\* what a browser sends to the room: chat, hand_raise, and what is neither
BroadcastFrameStep(c) ==
    \/ ReceiveInvalidJSON(c)
    \/ \E raw \in ChatInputs \cup BlankChats : ReceiveChat(c, raw)
    \/ \E raised \in BOOLEAN : ReceiveHandRaise(c, raised)
    \/ ReceiveOther(c)

\* what a browser sends to one peer
SignalFrameStep(c) ==
    \E to \in {0} \cup Users, signal \in {"offer"} : ReceiveSignal(c, to, signal)

\* connect() after the handshake
ConnectStep(c) ==
    \/ ConnectCheckAccess(c)
    \/ ConnectAddRoom(c)
    \/ ConnectAddUser(c)
    \/ ConnectSnapshot(c)
    \/ ConnectBroadcastJoin(c)

\* disconnect()
DisconnectStep(c) ==
    \/ DisconnectBroadcast(c)
    \/ DisconnectDiscardRoom(c)
    \/ DisconnectDiscardUser(c)

\* the consumer's own steps
LifeStep(c) ==
    \/ ConnectStep(c)
    \/ Deliver(c)
    \/ DisconnectStep(c)

\* the steps of a REST request once started
ViewStep(r) ==
    \/ JoinCount(r)
    \/ JoinUpsert(r)
    \/ JoinSave(r)
    \/ LeaveUpdate(r)
    \/ LeaveSave(r)
    \/ LeaveUpdateAll(r)
    \/ EndSave(r)
    \/ EndUpdateAll(r)

Next ==
    \/ \E c \in TwoConns, t \in Tokens, m \in {"R1", "R0"} :
          (GetUser(t) # Anonymous \/ m = "R1") /\ Handshake(c, t, m)
    \/ \E c \in Conns : LifeStep(c)
    \/ \E r \in OneWorker, u \in {2, 3} : JoinStart(r, u, "R1")
    \/ \E r \in OneWorker, u \in {1, 2} : LeaveStart(r, u, "R1")
    \/ \E r \in OneWorker, u \in {1, 2} : EndStart(r, u, "R1")
    \/ \E r \in OneWorker : ViewStep(r)

Spec == Init /\ [][Next]_vars

\* ---------------------------------------------- the relay of inbound frames
\* The room after users 2 and 3 have joined meeting R1 over REST (user 1 hosts
\* it) and user 3 has joined R2: the rows the access check and the snapshot
\* read stay as they are while frames are relayed.
RelayInit ==
    /\ meetingActive = [m \in Meetings |-> TRUE]
    /\ participant = [m \in Meetings |-> [u \in Users |->
                        IF u # MeetingHost[m] /\ (m = "R1" \/ u = 3) THEN "active" ELSE "none"]]
    /\ nreq = MaxRequests
    /\ Fresh

ValidToken(u) == [kind |-> "valid", uid |-> u]

RelayNext ==
    \/ \E c \in TwoConns, u \in {1, 2} : Handshake(c, ValidToken(u), "R1")
    \/ \E c \in TwoConns : Handshake(c, ValidToken(3), "R2")
    \/ \E c \in Conns : LifeStep(c)
    \/ \E c \in Conns : BroadcastFrameStep(c)

RelaySpec == RelayInit /\ [][RelayNext]_vars

\* the unicast relay: user 2 hosts R2 and takes part in R1
SignalNext ==
    \/ \E c \in TwoConns, u \in {1, 2} : Handshake(c, ValidToken(u), "R1")
    \/ \E c \in TwoConns : Handshake(c, ValidToken(2), "R2")
    \/ \E c \in Conns : LifeStep(c)
    \/ \E c \in Conns : SignalFrameStep(c)

SignalSpec == RelayInit /\ [][SignalNext]_vars

\* the unicast relay in meeting R1, with every kind of payload
PayloadNext ==
    \/ \E c \in TwoConns, u \in {1, 2} : Handshake(c, ValidToken(u), "R1")
    \/ \E c \in Conns : LifeStep(c)
    \/ \E c \in Conns, data \in SignalFrames : ReceiveSignalFrame(c, data)

PayloadSpec == RelayInit /\ [][PayloadNext]_vars

\* several tabs of one user: user 1 (connection 1) has joined R1 and has been
\* sent its room_state and its own participant_joined; user 2 then opens
\* two tabs on R1, and signals addressed to user 2 are sent
MultiTabInit ==
    /\ meetingActive = [m \in Meetings |-> TRUE]
    /\ participant = [m \in Meetings |-> [u \in Users |->
                        IF u # MeetingHost[m] /\ (m = "R1" \/ u = 3) THEN "active" ELSE "none"]]
    /\ nreq = MaxRequests
    /\ req = [r \in Reqs |-> Idle]
    /\ groups = (MeetingGroup("R1") :> {1}) @@ (UserGroup(1) :> {1})
    /\ inbox = [c \in Conns |-> <<>>]
    /\ pc = [c \in Conns |-> IF c = 1 THEN "active" ELSE "init"]
    /\ cred = [c \in Conns |-> IF c = 1 THEN "valid" ELSE "none"]
    /\ user = [c \in Conns |-> IF c = 1 THEN 1 ELSE Anonymous]
    /\ room = [c \in Conns |-> IF c = 1 THEN "R1" ELSE "R0"]
    /\ hasUserGroup = [c \in Conns |-> c = 1]
    /\ closeCode = [c \in Conns |-> 0]
    /\ out = [c \in Conns |->
                IF c = 1
                THEN << [MsgOf("room_state", 1, 1, 0) EXCEPT !.participants = {2, 3}],
                        MsgOf("participant_joined", 1, 1, 0) >>
                ELSE <<>>]
    /\ nframes = [c \in Conns |-> 0]
    /\ lefts = [c \in Conns |-> 0]
    /\ log = {}
    /\ lastOp = [gc \in RegGroups \X TwoConns |-> "none"]

\* user 1 stays connected; it is the one that signals
MultiTabNext ==
    \/ \E c \in {2, 3} : Handshake(c, ValidToken(2), "R1")
    \/ \E c \in Conns : ConnectStep(c)
    \/ \E c \in Conns : Deliver(c)
    \/ \E c \in {2, 3} : DisconnectStep(c)
    \/ ReceiveSignal(1, 2, "offer")

MultiTabSpec == MultiTabInit /\ [][MultiTabNext]_vars

\* every kind of inbound frame, between two users of R1
FrameNext ==
    \/ \E c \in TwoConns, u \in {1, 2} : Handshake(c, ValidToken(u), "R1")
    \/ \E c \in Conns : LifeStep(c)
    \/ \E c \in Conns, data \in InboundFrames : Receive(c, data)
    \/ \E c \in Conns : ReceiveInvalidJSON(c)
    \/ \E c \in Conns : ReceiveBinary(c)
    \/ \E c \in Conns : ReceiveNonObject(c)
    \/ \E c \in Conns : ReceiveSignalBadTarget(c)
    \/ \E c \in Conns : ReceiveTooDeep(c)

FrameSpec == RelayInit /\ [][FrameNext]_vars

\* a text of n characters: `pad` at the positions in `at`, "a" elsewhere
Text(n, at, pad) == [i \in 1..n |-> IF i \in at THEN pad ELSE "a"]

\* chat texts around the cap: a short one; one that is over the cap once
\* stripped; one whose cap falls right after an inner space; one that is at
\* the cap once its leading space is stripped
LongChatInputs ==
    {<<" ", "a", " ">>,
     Text(MaxChatLen + 3, {1, MaxChatLen + 3}, " "),
     Text(MaxChatLen + 2, {MaxChatLen}, " "),
     Text(MaxChatLen + 1, {1}, " ")}

\* chats of any length between two users of R1
ChatNext ==
    \/ \E c \in TwoConns, u \in {1, 2} : Handshake(c, ValidToken(u), "R1")
    \/ \E c \in Conns : LifeStep(c)
    \/ \E c \in Conns, raw \in LongChatInputs : ReceiveChat(c, raw)

ChatSpec == RelayInit /\ [][ChatNext]_vars

\* two view workers serving joins and leaves of meeting R2, which user 2
\* hosts; user 1 has been in it before and has left
JoinInit ==
    /\ meetingActive = [m \in Meetings |-> TRUE]
    /\ participant = [m \in Meetings |-> [u \in Users |->
                        IF m = "R2" /\ u = 1 THEN "left" ELSE "none"]]
    /\ nreq = 0
    /\ Fresh

JoinNext ==
    \/ \E r \in Reqs, u \in Users : JoinStart(r, u, "R2")
    \/ \E r \in Reqs, u \in {1, 3} : LeaveStart(r, u, "R2")
    \/ \E r \in Reqs : JoinCount(r)
    \/ \E r \in Reqs : JoinUpsert(r)
    \/ \E r \in Reqs : JoinSave(r)
    \/ \E r \in Reqs : LeaveUpdate(r)

JoinSpec == JoinInit /\ [][JoinNext]_vars

\* two view workers serving joins, leaves and the end of meeting R1, which
\* user 1 hosts and user 3 has joined
EndRaceInit ==
    /\ meetingActive = [m \in Meetings |-> TRUE]
    /\ participant = [m \in Meetings |-> [u \in Users |->
                        IF m = "R1" /\ u = 3 THEN "active" ELSE "none"]]
    /\ nreq = 0
    /\ Fresh

EndRaceNext ==
    \/ \E r \in Reqs, u \in {2, 3} : JoinStart(r, u, "R1")
    \/ \E r \in Reqs, u \in {1, 2} : LeaveStart(r, u, "R1")
    \/ \E r \in Reqs, u \in {1, 2} : EndStart(r, u, "R1")
    \/ \E r \in Reqs : ViewStep(r)

EndRaceSpec == EndRaceInit /\ [][EndRaceNext]_vars

\* The room termination signal: a meeting.ended message put on the room
\* group from outside the consumer, the message the handler of lines 190-192
\* is written for (no view of this repository sends it).
ExternalMeetingEnded(m) ==
    /\ Members(MeetingGroup(m)) # {}
    /\ inbox' = group_send(MeetingGroup(m), MsgOf("meeting.ended", Anonymous, 0, 0))
    /\ UNCHANGED <<dbVars, restVars, groups, connVars, ghostVars>>

\* two users of R1 and the termination signal
EndedNext ==
    \/ \E c \in TwoConns, u \in {1, 2} : Handshake(c, ValidToken(u), "R1")
    \/ \E c \in Conns : LifeStep(c)
    \/ ExternalMeetingEnded("R1")

EndedSpec == RelayInit /\ [][EndedNext]_vars

\* teardown when the channel layer's store can fail under a call
FaultStep(c) ==
    \/ DisconnectBroadcastFails(c)
    \/ DisconnectDiscardRoomFails(c)
    \/ DisconnectDiscardUserFails(c)

FaultNext ==
    \/ \E c \in TwoConns, u \in {1, 2} : Handshake(c, ValidToken(u), "R1")
    \/ \E c \in Conns : LifeStep(c)
    \/ \E c \in Conns : FaultStep(c)

FaultSpec == RelayInit /\ [][FaultNext]_vars

\* ------------------------------------------------- the group registry
\* group_add / group_discard as connect() and disconnect() call them, in any
\* order and any number of times per (group, channel)
RegJoin(g, c) ==
    /\ groups' = group_add(g, c)
    /\ lastOp' = [lastOp EXCEPT ![<<g, c>>] =
                    IF c \in Members(g) THEN "rejoin" ELSE "join"]
    /\ UNCHANGED <<dbVars, restVars, inbox, connVars, log>>

RegLeave(g, c) ==
    /\ groups' = group_discard(g, c)
    /\ lastOp' = [lastOp EXCEPT ![<<g, c>>] =
                    IF c \in Members(g) THEN "leave" ELSE "releave"]
    /\ UNCHANGED <<dbVars, restVars, inbox, connVars, log>>

RegNext ==
    \/ \E g \in RegGroups, c \in TwoConns : RegJoin(g, c)
    \/ \E g \in RegGroups, c \in TwoConns : RegLeave(g, c)

RegistrySpec == Init /\ [][RegNext]_vars

\* =============================================================== properties
\* frames of the inbound frame `id` that connection c has been sent (written
\* to its socket) and that still wait on its channel
Sent(c, id) == {i \in 1..Len(out[c]) : out[c][i].id = id}
Waiting(c, id) == {i \in 1..Len(inbox[c]) : inbox[c][i].id = id}
Copies(c, id) == Cardinality(Sent(c, id)) + Cardinality(Waiting(c, id))

\* the connection that handled the inbound frame of a log record
Sender(r) == r.id[1]

\* C1: a webrtc_signal addressed to X reaches only sessions whose identity is
\* X: no session of another identity (a bystander of the room, the sender
\* itself when it is not X) is sent, or has queued, a frame made by that send.
SignalOnlyToTarget ==
    \A r \in log : r.kind = "webrtc_signal" =>
        \A c \in Conns : Copies(c, r.id) > 0 =>
            /\ user[c] = r.target
            /\ \A i \in Sent(c, r.id) : out[c][i].type = "webrtc_signal"

\* C1 witness: X's session in the sender's room was sent the signal while
\* the sender, of another identity, was sent nothing by it
SignalReachedTargetOnly ==
    \E r \in log, c \in Conns :
        /\ r.kind = "webrtc_signal"
        /\ user[c] = r.target
        /\ c # Sender(r)
        /\ room[c] = room[Sender(r)]
        /\ Cardinality(Sent(c, r.id)) = 1
        /\ user[Sender(r)] # r.target
        /\ pc[Sender(r)] = "active"
        /\ Copies(Sender(r), r.id) = 0

\* C2: the room_state frame a joining session is sent lists exactly the
\* identities that have a live session in its room at that moment, its own
\* excluded.
SnapshotListsLiveSessions ==
    [][\A c \in Conns :
          (pc[c] = "snapshot" /\ pc'[c] = "bcast_join") =>
              out'[c][Len(out'[c])].participants = LiveIdentities(room[c]) \ {user[c]}]_vars

\* C3: whatever other sessions do while a session joins, the first frame the
\* session is sent is room_state; participant_joined, chat and hand_raise
\* frames come after it, although the session is in the room group before
\* room_state is sent.
RoomStateFirst ==
    \A c \in Conns :
        out[c] # <<>> =>
            /\ out[c][1].type = "room_state"
            /\ \A i \in 2..Len(out[c]) : out[c][i].type # "room_state"

\* C3 witness: a broadcast of another session is queued for a session that
\* is in the room group and has not been sent its room_state yet
BroadcastQueuedBeforeRoomState ==
    \E c \in Conns :
        /\ pc[c] = "snapshot"
        /\ out[c] = <<>>
        /\ \E i \in 1..Len(inbox[c]) :
              inbox[c][i].type \in {"participant.joined", "chat.message", "hand.raise"}

\* meeting_ended frames connection c has been sent or has queued
EndedCopies(c) ==
    Cardinality({i \in 1..Len(out[c]) : out[c][i].type = "meeting_ended"})
    + Cardinality({i \in 1..Len(inbox[c]) : inbox[c][i].type = "meeting.ended"})

\* C4: when the end endpoint, or the leave endpoint called by the host, has
\* terminated a room, every session in that room's group has been sent
\* meeting_ended exactly once.
TerminationNotifiesRoom ==
    [][\A r \in Reqs :
          (req[r].pc \in {"end_update_all", "leave_update_all"} /\ req'[r].pc = "idle") =>
              \A c \in Members(MeetingGroup(req[r].meeting)) : EndedCopies(c)' = 1]_vars

\* C5: an inbound frame whose type is none of chat, hand_raise and
\* webrtc_signal is answered with exactly one error frame on the sender's
\* socket, and nothing goes to any group.
UnknownTypeAnswered ==
    \A r \in log : r.kind = "other" =>
        /\ Cardinality({i \in Sent(Sender(r), r.id) :
                          out[Sender(r)][i].type = "error"}) = 1
        /\ r.group = NoGroup

\* the access check's refusals: the meeting is missing or ended, or the user
\* is neither its host nor an active participant of it
Refused(m, u) ==
    \/ m \notin Meetings
    \/ ~meetingActive[m]
    \/ (MeetingHost[m] # u /\ participant[m][u] # "active")

\* the position connect() must come from to reach each later position
ConnectOrder ==
    [add_room |-> "check", add_user |-> "add_room", snapshot |-> "add_user",
     bcast_join |-> "snapshot", active |-> "bcast_join"]

TornDownOnce ==
    \A c \in Conns :
        /\ lefts[c] <= 1
        /\ \A d \in Conns : Copies(d, <<c, 0 - 1>>) <= 1
        /\ (pc[c] = "closed" /\ hasUserGroup[c]) =>
              /\ lefts[c] = 1
              /\ \A g \in DOMAIN groups : c \notin groups[g]

\* C7 witness: an accepted session is in the middle of disconnect() while the
\* end or leave endpoint is in the middle of terminating its room
TeardownDuringTermination ==
    \E c \in Conns, r \in Reqs :
        /\ hasUserGroup[c]
        /\ pc[c] \in {"discard_room", "discard_user"}
        /\ req[r].pc \in {"end_update_all", "leave_update_all"}
        /\ req[r].meeting = room[c]

RelayedChats == {r \in log : r.kind = "chat" /\ r.group # NoGroup}

MultiTabSignals ==
    {r \in log : r.kind = "webrtc_signal" /\ r.group # NoGroup /\ Cardinality(r.live) >= 2}

ClosedSessionsUnregistered ==
    \A c \in Conns :
        pc[c] = "closed" => \A g \in DOMAIN groups : c \notin groups[g]

\* the two registrations of a session
InRoomGroup(c) == c \in Members(<<"meeting", room[c]>>)
InPersonalGroup(c) == c \in Members(<<"user", user[c]>>)

\* C12: whenever a session dispatches a message to a group, every session is
\* in both its room group and its personal group or in neither, during
\* connect as during teardown.
NoDispatchSeesHalfRegistered ==
    [][(\E r \in log' \ log : r.group # NoGroup) =>
          \A c \in Conns : InRoomGroup(c) <=> InPersonalGroup(c)]_vars

\* copies of the participant_joined broadcast of session c that session d has
\* been sent or has queued
JoinCopies(d, c) ==
    Cardinality({i \in 1..Len(out[d]) :
                    out[d][i].type = "participant_joined" /\ out[d][i].id = <<c, 0>>})
    + Cardinality({i \in 1..Len(inbox[d]) :
                    inbox[d][i].type = "participant.joined" /\ inbox[d][i].id = <<c, 0>>})

\* C13: the participant_joined broadcast of a joining session goes to the
\* other members of the room group and not to the joining session itself.
JoinNotEchoed ==
    \A c \in Conns : JoinCopies(c, c) = 0

\* two inbound frames that differ at most in the sender fields
SameButSender(d1, d2) ==
    [d1 EXCEPT !.user_id = 0, !.from = 0] = [d2 EXCEPT !.user_id = 0, !.from = 0]

\* C14: the sender fields of every outbound chat, hand_raise and
\* webrtc_signal frame are the identity of the session that handled the
\* inbound frame, and a step that handles an inbound frame is the same step
\* for every frame that differs from it only in client-supplied sender
\* fields.
SenderIsTheSession ==
    [][(\E s \in Conns : nframes'[s] # nframes[s]) =>
          /\ \A d \in Conns : \A i \in 1..Len(inbox'[d]) :
                inbox'[d][i].type \in {"chat.message", "hand.raise", "webrtc.relay"} =>
                    /\ inbox'[d][i].user_id = user[inbox'[d][i].id[1]]
                    /\ inbox'[d][i].username = Username(user[inbox'[d][i].id[1]])
          /\ \A s \in Conns : nframes'[s] # nframes[s] =>
                \A d1 \in InboundFrames :
                    Receive(s, d1) =>
                        \A d2 \in InboundFrames : SameButSender(d1, d2) => Receive(s, d2)]_vars

\* C14 witness: a frame relayed by a session of user 1 has reached a session
\* of user 2, carrying user 1 as its sender
SenderSeenByPeer ==
    \E r \in log : \E c \in Conns \ {Sender(r)} : \E i \in Sent(c, r.id) :
        /\ user[Sender(r)] = 1
        /\ user[c] = 2
        /\ out[c][i].type \in {"chat", "hand_raise", "webrtc_signal"}
        /\ out[c][i].user_id = 1

\* C17: handling an inbound frame never takes the session out of Active,
\* whatever the frame is.
FramesKeepSessionActive ==
    [][\A c \in Conns :
          (pc[c] = "active" /\ nframes'[c] # nframes[c]) => pc'[c] = "active"]_vars

\* the first and the last character of a text that is not a space
FirstInk(raw) ==
    CHOOSE lo \in 1..Len(raw) : raw[lo] # " " /\ \A j \in 1..(lo - 1) : raw[j] = " "
LastInk(raw) ==
    CHOOSE hi \in 1..Len(raw) : raw[hi] # " " /\ \A j \in (hi + 1)..Len(raw) : raw[j] = " "

\* the text from its first to its last non-space character, and of that the
\* first 500 characters
StrippedThenCut(raw) ==
    IF \A i \in 1..Len(raw) : raw[i] = " " THEN <<>>
    ELSE LET lo == FirstInk(raw)
             hi == LastInk(raw)
             n == IF hi - lo + 1 > 500 THEN 500 ELSE hi - lo + 1
         IN [i \in 1..n |-> raw[lo + i - 1]]

\* C15: the chat message queued for, and then sent to, every member is the
\* inbound text stripped of leading and trailing whitespace and then cut to
\* its first 500 characters; none is longer than 500, and it is the same for
\* every recipient.
ChatStrippedThenCut ==
    [][/\ \A c \in Conns : nframes'[c] # nframes[c] => \A raw \in LongChatInputs :
             ReceiveChat(c, raw) =>
                 /\ StrippedThenCut(raw) = <<>> => inbox' = inbox
                 /\ \A d \in Conns : \A i \in 1..Len(inbox'[d]) :
                       inbox'[d][i].id = <<c, nframes'[c]>> =>
                           /\ inbox'[d][i].message = StrippedThenCut(raw)
                           /\ Len(inbox'[d][i].message) <= 500
       /\ \A d \in Conns :
             (Len(out'[d]) = Len(out[d]) + 1 /\ Len(inbox'[d]) = Len(inbox[d]) - 1) =>
                 out'[d][Len(out'[d])].message = Head(inbox[d]).message]_vars

\* C15 witness: a member other than the sender was sent a chat of exactly
\* 500 characters that ends in a space, cut from a longer text
CutChatDelivered ==
    \E r \in RelayedChats : \E c \in Conns \ {Sender(r)} : \E i \in Sent(c, r.id) :
        /\ out[c][i].type = "chat"
        /\ Len(out[c][i].message) = 500
        /\ out[c][i].message[500] = " "

\* ------------------------------------------------------------------ C16
\* the groups a channel is registered in
GroupsOf(c) == {g \in DOMAIN groups : c \in groups[g]}

\* C16: an Active session is a member of the room group of the room it
\* connected to and of the personal group of its own user, and of no other
\* group
ActiveInItsTwoGroups ==
    \A c \in Conns :
        pc[c] = "active" => GroupsOf(c) = {<<"meeting", room[c]>>, <<"user", user[c]>>}

\* two Active sessions of different users in different rooms, one of them
\* with a frame already handled
TwoActiveInOwnGroups ==
    \E c, d \in Conns :
        /\ pc[c] = "active" /\ pc[d] = "active"
        /\ room[c] # room[d] /\ user[c] # user[d]
        /\ nframes[c] > 0
        /\ Cardinality(GroupsOf(c) \cup GroupsOf(d)) = 4

\* ------------------------------------------------------------------ C18
\* a handled webrtc_signal that had no "to", or whose target had no live
\* session when it was handled
SignalMiss(r) == r.kind = "webrtc_signal" /\ (r.target = 0 \/ r.live = {})

\* C18: a webrtc_signal without "to", or to an identity without a live
\* session, is dropped silently: handling it sends no frame, leaves every
\* session's state and the group memberships as they were and keeps the sender
\* Active, and no session is ever sent a frame made by it (no relayed signal,
\* and no error frame to the sender).
MissedSignalDropped ==
    [][/\ \A c \in Conns : nframes'[c] # nframes[c] => \A to \in {0} \cup Users :
             (ReceiveSignal(c, to, "offer") /\ (to = 0 \/ LiveSessions(to) = {})) =>
                 /\ pc' = pc /\ pc'[c] = "active"
                 /\ groups' = groups
                 /\ out' = out
       /\ \A r \in log' : SignalMiss(r) =>
             \A c \in Conns : \A i \in 1..Len(out'[c]) : out'[c][i].id # r.id]_vars

\* C18 witness: a signal was handled whose target's only session was being
\* torn down: that session had it queued and is closed now, without having
\* been sent it; the sender is still Active
SignalMissHandled ==
    \E r \in log :
        /\ SignalMiss(r)
        /\ pc[Sender(r)] = "active"
        /\ r.target \in Users \ {user[Sender(r)]}
        /\ \E d \in r.enqueued : pc[d] = "closed" /\ Sent(d, r.id) = {}

\* ------------------------------------------------------------------ C19
\* the messages and frames that come from a send to a room group
IsRoomBroadcast(m) ==
    WireType(m.type) \in {"participant_joined", "participant_left", "chat", "hand_raise",
                          "meeting_ended"}

\* what names one broadcast: its kind and the id of the send that made it
Keys(s) == [i \in 1..Len(s) |-> <<WireType(s[i].type), s[i].id>>]

\* the room broadcasts of one session in the order it takes them: those it
\* has been sent, then those still queued for it
StreamOf(sent, queued) ==
    Keys(SelectSeq(sent, IsRoomBroadcast) \o SelectSeq(queued, IsRoomBroadcast))

IsPrefix(s, t) == Len(s) <= Len(t) /\ s = SubSeq(t, 1, Len(s))

\* the place of broadcast b among the frames sent to a session (0: not sent)
PlaceIn(sent, b) ==
    LET at == {i \in 1..Len(sent) : IsRoomBroadcast(sent[i]) /\ Keys(sent)[i] = b}
    IN IF at = {} THEN 0 ELSE CHOOSE i \in at : TRUE

\* C19: room broadcasts reach every member in the order they were issued.
\* Each step leaves a session's stream as it is, cuts its unsent end off when
\* the session ends, or puts the one broadcast issued in that step (the same
\* for all members that take it, and new to all) behind everything the session
\* was sent or has queued; and a broadcast a session is sent comes, at every
\* other session that was sent it too, after the broadcasts both were sent
\* before.
BroadcastsInIssueOrder ==
    [][/\ \A c \in Conns : (out'[c] # out[c] \/ inbox'[c] # inbox[c]) =>
             LET old == StreamOf(out[c], inbox[c])
                 new == StreamOf(out'[c], inbox'[c])
             IN \/ IsPrefix(new, old) /\ (new # old => pc'[c] = "closed")
                \/ /\ Len(new) = Len(old) + 1
                   /\ IsPrefix(old, new)
                   /\ \A d \in Conns :
                         LET oldd == StreamOf(out[d], inbox[d])
                             newd == StreamOf(out'[d], inbox'[d])
                         IN /\ \A i \in 1..Len(oldd) : oldd[i] # new[Len(new)]
                            /\ Len(newd) > Len(oldd) => newd[Len(newd)] = new[Len(new)]
       /\ \A c \in Conns : out'[c] # out[c] =>
             LET j == Len(out'[c])
             IN IsRoomBroadcast(out'[c][j]) =>
                    \A d \in Conns \ {c} : \A i \in 1..(j - 1) :
                        IsRoomBroadcast(out'[c][i]) =>
                            LET pi == PlaceIn(out'[d], Keys(out'[c])[i])
                                pj == PlaceIn(out'[d], Keys(out'[c])[j])
                            IN (pi > 0 /\ pj > 0) => pi < pj]_vars

\* C19 witness: two sessions were both sent the same two broadcasts, issued
\* by different sessions
TwoBroadcastsAtTwoMembers ==
    \E c, d \in Conns : \E i, j \in 1..Len(out[c]) :
        /\ c # d /\ i < j
        /\ IsRoomBroadcast(out[c][i]) /\ IsRoomBroadcast(out[c][j])
        /\ out[c][i].id[1] # out[c][j].id[1]
        /\ PlaceIn(out[d], Keys(out[c])[i]) > 0
        /\ PlaceIn(out[d], Keys(out[c])[j]) > 0

\* ------------------------------------------------------------------ C20
\* the handled frames whose text was not JSON
NotJSON == {"invalid_json", "too_deep"}

\* C20: a text frame that is not JSON is answered with exactly one error
\* frame on the session it came in on; no other session is sent or has queued
\* anything by it, no group membership changes, and the session stays Active.
UnparseableTextAnswered ==
    [][\A c \in Conns : nframes'[c] # nframes[c] =>
          \A r \in log' \ log : r.kind \in NotJSON =>
              /\ Len(out'[c]) = Len(out[c]) + 1
              /\ out'[c][Len(out'[c])].type = "error"
              /\ SubSeq(out'[c], 1, Len(out[c])) = out[c]
              /\ \A d \in Conns \ {c} : out'[d] = out[d]
              /\ inbox' = inbox
              /\ groups' = groups
              /\ pc[c] = "active" /\ pc' = pc]_vars

\* ------------------------------------------------------------------ C21
\* the handled chats that were not relayed
DroppedChats == {r \in log : r.kind = "chat" /\ r.group = NoGroup}

\* C21: a chat whose message is missing, empty or all whitespace makes no
\* frame for anyone: handling it queues nothing at any session and sends
\* nothing (no error frame to the sender either), and no frame made by it is
\* ever sent or queued.
BlankChatDropped ==
    [][/\ \A c \in Conns : nframes'[c] # nframes[c] => \A raw \in BlankChats :
             ReceiveChat(c, raw) =>
                 /\ inbox' = inbox
                 /\ out' = out
                 /\ \A r \in log' \ log : r.group = NoGroup
       /\ \A r \in DroppedChats' : \A c \in Conns :
             /\ \A i \in 1..Len(out'[c]) : out'[c][i].id # r.id
             /\ \A i \in 1..Len(inbox'[c]) : inbox'[c][i].id # r.id]_vars

\* C21 witness: a chat was dropped while its sender and a session of another
\* user were both Active members of the room; the sender is still Active
BlankChatHandled ==
    \E r \in DroppedChats : \E d \in Conns \ {Sender(r)} :
        /\ pc[Sender(r)] = "active" /\ pc[d] = "active"
        /\ room[d] = room[Sender(r)] /\ user[d] # user[Sender(r)]
        /\ Copies(d, r.id) = 0 /\ Copies(Sender(r), r.id) = 0

\* ------------------------------------------------------------------ C22
\* the copies of a relayed chat, as frames: those sent, and those that the
\* handler will make of the queued messages
ChatFrames(r) ==
    UNION {{out[c][i] : i \in Sent(c, r.id)} \cup {FrameOf(inbox[c][i]) : i \in Waiting(c, r.id)}
           : c \in Conns}

ActiveGuests(m) == {u \in Users \ {MeetingHost[m]} : participant[m][u] = "active"}

\* C23: a meeting never has more active non-host participants than its
\* max_participants, however concurrent joins interleave.
CapNeverExceeded ==
    \A m \in Meetings : Cardinality(ActiveGuests(m)) <= maxParticipants[m]

\* ------------------------------------------------------------------ C24
\* connections closed by connect() with 4001 or 4003, never accepted
Rejected == {c \in Conns : closeCode[c] \in {CloseUnauthenticated, CloseForbidden}}

\* C24: a rejected connection causes no frame at any session: nothing that
\* a session is sent was made by a rejected connection, its participant_left
\* included.
RejectionSendsNothing ==
    \A c \in Rejected : \A d \in Conns : \A i \in 1..Len(out[d]) : out[d][i].id[1] # c

\* ------------------------------------------------------------------ C25
\* C25: a webrtc_signal is sent only to sessions connected to the room of
\* the session that sent it, whatever its "to".
SignalStaysInRoom ==
    \A r \in log : r.kind = "webrtc_signal" =>
        \A c \in Conns : Sent(c, r.id) # {} => room[c] = room[Sender(r)]

\* ------------------------------------------------------------------ C26
\* C26: the user of every Active session is, at every moment, the host or
\* an active participant of the session's meeting, and the meeting is active.
ActiveSessionsHaveAccess ==
    \A c \in Conns : pc[c] = "active" =>
        /\ room[c] \in Meetings
        /\ meetingActive[room[c]]
        /\ (MeetingHost[room[c]] = user[c] \/ participant[room[c]][user[c]] = "active")

\* ------------------------------------------------------------------ C27
\* b's room_state lists the user of a
ListedTo(b, a) ==
    \E i \in 1..Len(out[b]) :
        out[b][i].type = "room_state" /\ user[a] \in out[b][i].participants

\* C27: of two Active sessions a and b of different users in one room, b has
\* learnt of a exactly once: a's user is in b's room_state, or b was sent (or
\* has queued) one participant_joined of a, and not both.
LearnsOfPeerOnce ==
    \A a, b \in Conns :
        (/\ a # b /\ pc[a] = "active" /\ pc[b] = "active"
         /\ room[a] = room[b] /\ user[a] # user[b]) =>
            /\ JoinCopies(b, a) <= 1
            /\ ListedTo(b, a) <=> JoinCopies(b, a) = 0

\* ------------------------------------------------------------------ C28
\* the other Active sessions of c's user in c's room
ActiveTwins(c) ==
    {d \in Conns \ {c} : pc[d] = "active" /\ user[d] = user[c] /\ room[d] = room[c]}

\* C28: participant_left for a user is broadcast to the room only by the
\* teardown of the user's last session there: when a session's teardown
\* issues it to a room group that has members left to take it, the user has
\* no other Active session in that room.
LeftOnlyForLastSession ==
    [][\A c \in Conns :
          (lefts'[c] # lefts[c] /\ inbox' # inbox) => ActiveTwins(c) = {}]_vars

\* ------------------------------------------------------------------ C29
\* the sessions that are Active in c's room, c apart
ActivePeers(c) == {d \in Conns \ {c} : pc[d] = "active" /\ room[d] = room[c]}

\* session c has been sent its room_state
HasRoomState(c) == \E i \in 1..Len(out[c]) : out[c][i].type = "room_state"

TeardownInOrder ==
    [][\A c \in Conns :
          /\ (lefts'[c] # lefts[c] /\ hasUserGroup[c]) =>
                InRoomGroup(c) /\ InPersonalGroup(c) /\ groups' = groups
          /\ (InRoomGroup(c) /\ ~InRoomGroup(c)') =>
                lefts[c] = 1 /\ InPersonalGroup(c)'
          /\ (InPersonalGroup(c) /\ ~InPersonalGroup(c)') =>
                lefts[c] = 1 /\ ~InRoomGroup(c)]_vars

\* C30 witness: a session that was Active has been torn down to the end,
\* and another session was sent its participant_left
TornDownInOrder ==
    \E c \in Conns : \E d \in Conns \ {c} :
        /\ pc[c] = "closed" /\ hasUserGroup[c] /\ lefts[c] = 1
        /\ GroupsOf(c) = {}
        /\ \E i \in 1..Len(out[d]) :
              out[d][i].type = "participant_left" /\ out[d][i].id[1] = c

\* ------------------------------------------------------------------ C31
\* C31: meeting_ended is the last frame a session is sent: nothing follows
\* it on the connection.
MeetingEndedIsLast ==
    \A c \in Conns : \A i \in 1..Len(out[c]) :
        out[c][i].type = "meeting_ended" => i = Len(out[c])

\* C31 witness: a session that was sent meeting_ended has, while it closes,
\* the participant_left of another session next in its queue
LeftQueuedAfterMeetingEnded ==
    \E c \in Conns :
        /\ pc[c] = "closing"
        /\ out[c] # <<>> /\ out[c][Len(out[c])].type = "meeting_ended"
        /\ inbox[c] # <<>>
        /\ Head(inbox[c]).type = "participant.left"
        /\ Head(inbox[c]).id[1] # c

NoRequestRunning == \A r \in Reqs : req[r].pc = "idle"

\* C33: an ended meeting has no active participant, however join, leave and
\* end requests interleave.  Stated for the states in which every request
\* has returned, so that the steps between the two writes of one end request
\* do not count.
EndedMeetingHasNoActive ==
    NoRequestRunning =>
        \A m \in Meetings : ~meetingActive[m] => ActiveCount(m) = 0

FramesKeepMembership ==
    [][/\ (\E c \in Conns : nframes'[c] # nframes[c]) => groups' = groups
       /\ groups' # groups =>
             \E c \in Conns :
                 \/ ConnectAddRoom(c)
                 \/ ConnectAddUser(c)
                 \/ DisconnectDiscardRoom(c)
                 \/ DisconnectDiscardUser(c)]_vars

\* C37 witness: a session has handled a frame whose type it does not know,
\* another session is connected, and each is still in its two groups
UnknownFrameHandledInGroups ==
    \E r \in log : \E d \in Conns \ {Sender(r)} :
        /\ r.kind = "other"
        /\ pc[Sender(r)] = "active" /\ pc[d] = "active"
        /\ InRoomGroup(Sender(r)) /\ InPersonalGroup(Sender(r))
        /\ InRoomGroup(d) /\ InPersonalGroup(d)

Unchecked == {c \in Conns : pc[c] \in {"init", "check"}} \cup Rejected

\* C39: a session that has not passed the identity check and the access
\* check is a member of no group.
UncheckedInNoGroup == \A c \in Unchecked : GroupsOf(c) = {}

\* C39 witness: a connection refused by the access check has been closed and
\* torn down while another connection is registered in its two groups
RefusedBesideRegistered ==
    \E c, d \in Conns :
        /\ closeCode[c] = CloseForbidden /\ pc[c] = "closed"
        /\ d \notin Unchecked
        /\ InRoomGroup(d) /\ InPersonalGroup(d)

====
